---- MODULE Spec2Model ----
(***************************************************************************)
(* A model of the Bio-Gen simulation core: the spatial grid, the agent     *)
(* pipeline (Agent.update, Agent.reproduce), the neural controller         *)
(* (NeuralNetwork.predict / mutate) and the tick procedure                 *)
(* (Simulation._step).                                                     *)
(*                                                                         *)
(* Number representation.  The program computes on floats; the model uses  *)
(* fixed point:                                                            *)
(*   - lengths and coordinates are in tenths of a pixel (Px(n) is n px);   *)
(*   - genome traits and controller outputs (thrust, rotate) are in tenths;*)
(*   - energy and thirst are in whole units (BASE_STAT = 100);             *)
(*   - controller weights and activations are in hundredths.               *)
(* Random draws of the program are nondeterministic choices from small     *)
(* sets of representable values.                                           *)
(***************************************************************************)
EXTENDS Integers, Sequences, FiniteSets, TLC

VARIABLES
    agents,         \* Simulation.agents: the list of Agent objects
    new_agents,     \* _step local: offspring of this tick
    active_agents,  \* _step local: indices (into agents) of the survivors
    idx,            \* _step: position of the `for a in self.agents` loop
    pc,             \* "idle" between ticks, "loop" inside the agent loop
    resources,      \* Simulation.resources: ids of the live Resource objects
    res,            \* the Resource objects by id: [pos, type, active]
    grid,           \* SpatialGrid.grid: cell key -> list of entities
    spawners,       \* Simulation.spawners
    ticks,          \* number of completed ticks (bounded by MaxTicks)
    prev_count,     \* history: len(agents) at the end of the previous tick
    dead_at_start,  \* history: indices of the agents whose flag was clear when the tick began
    credited,       \* history: per resource id, +35 credits given this tick
    last,           \* history: what the last agent step did
    net,            \* a NeuralNetwork object (the controller specification)
    clock,          \* Simulation's time fields: accumulator, paused, time_scale, stats_timer
    probe           \* the last call of the function specifications and its result

vars == << agents, new_agents, active_agents, idx, pc, resources, res, grid,
           spawners, ticks, prev_count, dead_at_start, credited, last, net, clock, probe >>

simvars == << agents, new_agents, active_agents, idx, pc, resources, res,
              grid, spawners, ticks, prev_count, dead_at_start, credited, last >>

-----------------------------------------------------------------------------
(* Configuration (utils/config.py) and literals of the code.               *)

\* n pixels in the model's length unit (tenths of a pixel).
Px(n) == n * 10

WORLD_SIZE == 5000
GRID_CELL_SIZE == 200
BASE_STAT == 100
REPRO_THRESHOLD == 75
REPRO_COST == 40
HID_NODES == 6
MAX_HIDDEN_NODES == 12
MIN_HIDDEN_NODES == 2
NUM_IN == 8
NUM_OUT == 2
STAT_CAP == 100
FOOD_GAIN == 35
WATER_GAIN == 4
ATTACK_DAMAGE == 40
ATTACK_GAIN == 30
HUNT_ENERGY == 70
CAPTURE_DIST == 20
CHILD_OFFSET == 30
TRAIT_MIN == 1
TRAIT_MAX == 10
ARCHETYPE_CUT == 7
ACC_CAP == 100
STEP_DT == 10
STATS_PERIOD == 30

\* Scaled configuration.  The population limits, the auto-seed batch, the
\* decay rates and the resource cap are scaled so that starvation, the floor
\* and the ceiling are reached within MaxTicks ticks: config has
\* INITIAL_POP = 80, MIN_POP = 20, MAX_POP = 150, a seed batch of 5,
\* DECAY_ENERGY = 0.015, DECAY_THIRST = 0.02 (per tick) and a cap of 600
\* resources.  The model has one food and one water spawner (the code 12
\* and 8).
INITIAL_POP == 3
MIN_POP == 3
MAX_POP == 4
SEED_COUNT == 1
DECAY_ENERGY == 25
DECAY_THIRST == 50
RESOURCE_CAP == 2
MaxTicks == 3
MaxEnts == 2
MaxMutations == 7
MaxFrames == 3
MaxStats == 1

Abs(n) == IF n < 0 THEN -n ELSE n
Min(a, b) == IF a < b THEN a ELSE b
Max(a, b) == IF a > b THEN a ELSE b

-----------------------------------------------------------------------------
(* pygame.Vector2: positions are pairs <<x, y>>.                           *)

VecAdd(p, q) == << p[1] + q[1], p[2] + q[2] >>

\* Vector2.distance_squared_to(q) < lim, for lim <= cap * cap.  The guard on
\* the coordinate differences keeps the squares within the integer width.
DistSqLess(p, q, lim, cap) ==
    LET dx == Abs(p[1] - q[1])
        dy == Abs(p[2] - q[2])
    IN  dx <= cap /\ dy <= cap /\ dx * dx + dy * dy < lim

\* The capture test of the code: distance_squared_to(...) < 400.
InCapture(p, q) ==
    DistSqLess(p, q, Px(CAPTURE_DIST) * Px(CAPTURE_DIST), Px(CAPTURE_DIST))

\* Exact Euclidean distance <= r.
WithinRadius(p, q, r) == DistSqLess(p, q, r * r + 1, r)

\* World wrapping: pos.x %= WORLD_SIZE[0]; pos.y %= WORLD_SIZE[1].
Wrap(p) == << p[1] % Px(WORLD_SIZE), p[2] % Px(WORLD_SIZE) >>

InWorld(p) ==
    /\ 0 <= p[1] /\ p[1] < Px(WORLD_SIZE)
    /\ 0 <= p[2] /\ p[2] < Px(WORLD_SIZE)

-----------------------------------------------------------------------------
(* core/spatial_grid.py                                                    *)

GridCols == (Px(WORLD_SIZE) \div Px(GRID_CELL_SIZE)) + 1
GridRows == (Px(WORLD_SIZE) \div Px(GRID_CELL_SIZE)) + 1

EmptyGrid == << >>

\* SpatialGrid._get_key: floor division of each coordinate by the cell size.
GetKey(pos) == << pos[1] \div Px(GRID_CELL_SIZE), pos[2] \div Px(GRID_CELL_SIZE) >>

\* SpatialGrid.insert: append the entity to its cell's list.  The grid is a
\* function from the occupied keys to lists of entities.
GridInsert(g, ent, pos) ==
    LET key == GetKey(pos)
    IN  IF key \in DOMAIN g
        THEN [g EXCEPT ![key] = Append(@, ent)]
        ELSE [k \in DOMAIN g \cup {key} |-> IF k = key THEN << ent >> ELSE g[k]]

\* The bounds check of get_nearby's loops.
CellInBounds(i, j) == i >= 0 /\ i < GridCols /\ j >= 0 /\ j < GridRows

RECURSIVE ScanRow(_, _, _, _)
\* The inner loop of get_nearby: cells (i, j) for j = lo .. hi.
ScanRow(g, i, j, hi) ==
    IF j > hi THEN << >>
    ELSE (IF CellInBounds(i, j) /\ << i, j >> \in DOMAIN g
          THEN g[<< i, j >>] ELSE << >>) \o ScanRow(g, i, j + 1, hi)

RECURSIVE ScanCols(_, _, _, _, _)
\* The outer loop of get_nearby: columns i = lo .. hi.
ScanCols(g, i, hi, jlo, jhi) ==
    IF i > hi THEN << >>
    ELSE ScanRow(g, i, jlo, jhi) \o ScanCols(g, i + 1, hi, jlo, jhi)

\* SpatialGrid.get_nearby(pos, radius): the entities of the cells within
\* r_cells of pos's cell, in the loops' order.
GetNearby(g, pos, radius) ==
    LET c == GetKey(pos)
        r_cells == (radius \div Px(GRID_CELL_SIZE)) + 1
    IN  ScanCols(g, c[1] - r_cells, c[1] + r_cells, c[2] - r_cells, c[2] + r_cells)

SeqToSet(s) == { s[k] : k \in 1 .. Len(s) }

-----------------------------------------------------------------------------
(* core/agent.py                                                           *)

\* Archetype determination of Agent.__init__.
Archetype(dna) ==
    IF dna.hunter_factor > ARCHETYPE_CUT THEN "HUNTER"
    ELSE IF dna.exploration_drive > ARCHETYPE_CUT THEN "EXPLORER"
    ELSE "GATHERER"

\* Agent.__init__(pos, brain, gen, dna): fresh energy/thirst, age 0, alive.
\* In the simulation an agent's controller is represented by the outputs
\* [thrust, rotate] it produces (NeuralNetwork itself is modelled in the
\* brain section) and its heading by the unit vector dir_vec of its angle.
NewAgent(pos, brain, gen, dna, dir) ==
    [ pos |-> pos, brain |-> brain, gen |-> gen, dna |-> dna, dir |-> dir,
      archetype |-> Archetype(dna),
      energy |-> BASE_STAT, thirst |-> BASE_STAT, alive |-> TRUE, age |-> 0 ]

\* One trait of reproduce's new_dna: max(0.1, min(1.0, v + noise)).
\* Mutant of ClampTrait: the lower bound is dropped.
ClampTrait_NoFloor(v) == Min(TRAIT_MAX, v)

ClampTrait(v) == Max(TRAIT_MIN, Min(TRAIT_MAX, v))

\* Agent.reproduce.  rnd holds the random draws: noise, the four
\* uniform(-0.1, 0.1) trait draws; offset, the position offset; brain, the
\* outputs of the mutated controller; dir, the child's random heading.
\* The child's position is parent position + offset, not wrapped.
Reproduce(a, rnd) ==
    NewAgent(VecAdd(a.pos, rnd.offset), rnd.brain, a.gen + 1,
             [ speed             |-> ClampTrait(a.dna.speed + rnd.noise[1]),
               sense             |-> ClampTrait(a.dna.sense + rnd.noise[2]),
               hunter_factor     |-> ClampTrait(a.dna.hunter_factor + rnd.noise[3]),
               exploration_drive |-> ClampTrait(a.dna.exploration_drive + rnd.noise[4]) ],
             rnd.dir)


\* The movement-cost term of the metabolism, (abs(thrust) + abs(rotate)) * 0.01,
\* on the scale of DECAY_ENERGY: one unit per tenth of |thrust| + |rotate|.
MoveCost(mv) == Abs(mv.thrust) + Abs(mv.rotate)

\* decay_mult, in tenths: 1.2 for an EXPLORER, 1.0 otherwise.
DecayMult(a) == IF a.archetype = "EXPLORER" THEN 12 ELSE 10

\* actual_speed in tenths of a pixel per unit of dt:
\* (thrust + 1.1) * 2.0 * dna['speed'], times 1.2 for an EXPLORER.
ActualSpeed(a, mv) ==
    LET base == ((mv.thrust + 11) * 2 * a.dna.speed) \div 10
    IN  IF a.archetype = "EXPLORER" THEN (base * 12) \div 10 ELSE base

\* Steps 1-4 of Agent.update and the death check: age, movement with world
\* wrapping, metabolism.  mv = [thrust, rotate, dir]: the controller's outputs
\* for this call and the unit vector of the new heading.
Metabolize(a, dt, mv) ==
    LET sp     == ActualSpeed(a, mv) * dt
        energy == a.energy - ((DECAY_ENERGY + MoveCost(mv)) * DecayMult(a) * dt) \div 10
        thirst == a.thirst - (DECAY_THIRST * DecayMult(a) * dt) \div 10
    IN  [ a EXCEPT !.age    = a.age + dt,
                   !.pos    = Wrap(VecAdd(a.pos, << mv.dir[1] * sp, mv.dir[2] * sp >>)),
                   !.energy = energy,
                   !.thirst = thirst,
                   !.alive  = IF energy <= 0 \/ thirst <= 0 THEN FALSE ELSE a.alive ]

\* The guard of step 5: a HUNTER whose (decayed) energy is below 70.
\* Mutant of Hunts: the archetype is not tested.
Hunts_AnyArchetype(a) == a.energy < HUNT_ENERGY

Hunts(a) == a.archetype = "HUNTER" /\ a.energy < HUNT_ENERGY

\* Mutant of AttackHits: no agent is ever in reach.
AttackHits_Never(a, other) == FALSE

\* One iteration of the hunter loop on `other` (never the hunter itself: the
\* caller filters it out and the loop tests identity again).
AttackHits(a, other) == InCapture(a.pos, other.pos)

Attacked(other) ==
    LET e == other.energy - ATTACK_DAMAGE
    IN  [ other EXCEPT !.energy = e,
                       !.alive  = IF e <= 0 THEN FALSE ELSE other.alive ]

Fed(a) == [ a EXCEPT !.energy = Min(STAT_CAP, a.energy + ATTACK_GAIN) ]

RECURSIVE HuntLoop(_, _, _)
\* `for other in others`, from position k on: [self, others] afterwards.
HuntLoop(a, others, k) ==
    IF k > Len(others) THEN [ self |-> a, others |-> others ]
    ELSE IF AttackHits(a, others[k])
         THEN HuntLoop(Fed(a), [ others EXCEPT ![k] = Attacked(others[k]) ], k + 1)
         ELSE HuntLoop(a, others, k + 1)

\* Agent.update(dt, food, water, others).  food and water only feed the
\* controller's inputs, which mv stands for.  The result is the agent and the
\* (mutated) other agents.
AgentUpdate(a, dt, mv, others) ==
    LET m == Metabolize(a, dt, mv)
    IN  IF Hunts(m) THEN HuntLoop(m, others, 1)
        ELSE [ self |-> m, others |-> others ]

-----------------------------------------------------------------------------
(* core/world.py                                                           *)

\* Resource(pos, r_type): active until consumed.
NewResource(pos, type) == [ pos |-> pos, type |-> type, active |-> TRUE ]

\* Spawner.spawn: a Resource at the spawner's position plus an offset inside
\* its disk, wrapped to the world.
Spawn(sp, offset) == NewResource(Wrap(VecAdd(sp.pos, offset)), sp.type)

-----------------------------------------------------------------------------
(* The random draws, as small sets.                                        *)

\* Agent(): the fresh agents of the model, one GATHERER and one HUNTER at
\* PosA, a GATHERER at PosB, an EXPLORER and a HUNTER at PosZ near the west
\* edge, both heading west.  The code
\* draws positions uniformly over the world, headings uniformly, speed in
\* 0.8-1.4, sense in 300-600, hunter_factor and exploration_drive in 0-1; the
\* controllers here drive at thrust 0.9 without turning.
PosA == << Px(1000), Px(1000) >>
PosB == << Px(1030) + 56, Px(1000) >>
PosZ == << Px(10), Px(3000) >>
East == << 1, 0 >>
West == << -1, 0 >>
Cruise == [ thrust |-> 9, rotate |-> 0 ]

FreshAgents ==
    { NewAgent(PosA, Cruise, 1,
               [ speed |-> 14, sense |-> Px(300), hunter_factor |-> 3, exploration_drive |-> 3 ],
               East),
      NewAgent(PosA, Cruise, 1,
               [ speed |-> 14, sense |-> Px(300), hunter_factor |-> 9, exploration_drive |-> 3 ],
               East),
      NewAgent(PosB, Cruise, 1,
               [ speed |-> 14, sense |-> Px(300), hunter_factor |-> 3, exploration_drive |-> 3 ],
               East),
      NewAgent(PosZ, Cruise, 1,
               [ speed |-> 10, sense |-> Px(600), hunter_factor |-> 3, exploration_drive |-> 9 ],
               West),
      NewAgent(PosZ, Cruise, 1,
               [ speed |-> 14, sense |-> Px(300), hunter_factor |-> 9, exploration_drive |-> 3 ],
               West) }

\* The outputs and heading of one Agent.update of agent a in the simulation.
MoveOf(a) == [ thrust |-> a.brain.thrust, rotate |-> a.brain.rotate, dir |-> a.dir ]

\* reproduce's draws in the simulation.
SimDraws ==
    { [ noise |-> << -1, 1, -1, 1 >>, offset |-> << -Px(CHILD_OFFSET), 0 >>,
        brain |-> Cruise, dir |-> East ] }

\* Spawner(): position uniform in [200, WORLD_SIZE - 200], radius in [300, 600].
FoodSpawner  == [ type |-> "food",  pos |-> << Px(1200), Px(1000) >>, radius |-> Px(300) ]
WaterSpawner == [ type |-> "water", pos |-> << Px(700), Px(1000) >>, radius |-> Px(300) ]

\* Spawner.spawn: offsets inside the spawner's disk.
SpawnOffsets(sp) ==
    IF sp.type = "food" THEN { << -1794, 0 >> } ELSE { << Px(295), 0 >> }

-----------------------------------------------------------------------------
(* core/simulation.py: Simulation._step, one action per phase.  The agent   *)
(* loop runs one iteration per AgentStep; pc and idx hold its position.     *)

AgentEnt(i) == [ kind |-> "agent", id |-> i ]
ResEnt(r)   == [ kind |-> "res", id |-> r ]

RECURSIVE InsertResources(_, _, _)
\* `for r in self.resources: self.grid.insert(r)` (the set's iteration order
\* is taken to be the ids' order).
InsertResources(g, R, ids) ==
    IF ids = {} THEN g
    ELSE LET r == CHOOSE x \in ids : \A y \in ids : x <= y
         IN  InsertResources(GridInsert(g, ResEnt(r), R[r].pos), R, ids \ {r})

RECURSIVE InsertAgents(_, _, _)
\* `for a in self.agents: self.grid.insert(a)`.
InsertAgents(g, as, k) ==
    IF k > Len(as) THEN g
    ELSE InsertAgents(GridInsert(g, AgentEnt(k), as[k].pos), as, k + 1)

\* Phase 1: clear and rebuild the grid.
RebuildGrid(as, R, live) == InsertAgents(InsertResources(EmptyGrid, R, live), as, 1)

\* Mutant of NeedsSeed: the population floor is never enforced.
NeedsSeed_Never(as) == FALSE

\* Phase 2: the auto-seed test, `len(self.agents) < config.MIN_POP`.
NeedsSeed(as) == Len(as) < MIN_POP

\* The sequences of n fresh agents.
SeedBatches(n) == [ 1 .. n -> FreshAgents ]

\* Mutant of Eats: the distance test is forgotten.
Eats_NoDistance(a, r) == r.active

\* Phase 4: the consumption test of one sensed food item.
Eats(a, r) == r.active /\ InCapture(a.pos, r.pos)

\* Mutant of MarkConsumed: the flag is left set.
MarkConsumed_Forgotten(r) == r

\* r.active = False.
MarkConsumed(r) == [ r EXCEPT !.active = FALSE ]

\* Mutant of FoodCredit: the gain is not capped.
FoodCredit_NoCap(a) == [ a EXCEPT !.energy = a.energy + FOOD_GAIN ]

\* a.energy = min(100, a.energy + 35).
FoodCredit(a) == [ a EXCEPT !.energy = Min(STAT_CAP, a.energy + FOOD_GAIN) ]

RECURSIVE ConsumeLoop(_, _, _)
\* `for r in food`, from position k on.  st = [a, res, live, credited, ate].
ConsumeLoop(st, food, k) ==
    IF k > Len(food) THEN st
    ELSE LET r == food[k]
         IN  IF Eats(st.a, st.res[r])
             THEN ConsumeLoop(
                    [ a        |-> FoodCredit(st.a),
                      res      |-> [ st.res EXCEPT ![r] = MarkConsumed(@) ],
                      live     |-> st.live \ {r},
                      credited |-> [ st.credited EXCEPT ![r] = @ + 1 ],
                      ate      |-> st.ate \cup {r} ],
                    food, k + 1)
             ELSE ConsumeLoop(st, food, k + 1)

\* The drinking test of one sensed water item.
Drinks(a, r) == InCapture(a.pos, r.pos)

RECURSIVE DrinkLoop(_, _, _, _, _)
\* `for r in water`: a.thirst = min(100, a.thirst + 4.0 * dt).
DrinkLoop(a, R, water, k, dt) ==
    IF k > Len(water) THEN a
    ELSE IF Drinks(a, R[water[k]])
         THEN DrinkLoop([ a EXCEPT !.thirst = Min(STAT_CAP, a.thirst + WATER_GAIN * dt) ],
                        R, water, k + 1, dt)
         ELSE DrinkLoop(a, R, water, k + 1, dt)

\* Mutant of MayReproduce: the crowding factor is ignored.
MayReproduce_NoCrowding(a, n) == a.energy > REPRO_THRESHOLD

\* Phase 5: the agent may reproduce when its energy exceeds the threshold
\* and the roll random() < 0.005 * pop_factor can succeed, that is when
\* pop_factor = 1 - len(self.agents) / MAX_POP is positive.
MayReproduce(a, n) == a.energy > REPRO_THRESHOLD /\ n < MAX_POP

RECURSIVE InsertByAge(_, _)
\* Insert a into the age-sorted list s after every element of age <= a.age.
InsertByAge(s, a) ==
    IF s = << >> THEN << a >>
    ELSE IF s[Len(s)].age <= a.age THEN Append(s, a)
         ELSE Append(InsertByAge(SubSeq(s, 1, Len(s) - 1), a), s[Len(s)])

RECURSIVE SortByAge(_, _)
\* list.sort(key=lambda x: x.age): a stable sort by ascending age.
SortByAge(s, k) ==
    IF k = 0 THEN << >> ELSE InsertByAge(SortByAge(s, k - 1), s[k])

\* Mutant of Cull: the list is truncated without sorting.
Cull_Unsorted(s) ==
    IF Len(s) > MAX_POP THEN SubSeq(s, 1, MAX_POP) ELSE s

\* Mutant of Cull: the list is sorted but not truncated.
Cull_NoTruncate(s) ==
    IF Len(s) > MAX_POP THEN SortByAge(s, Len(s)) ELSE s

\* Phase 6: the soft limit keeps the MAX_POP youngest agents.
Cull(s) ==
    IF Len(s) > MAX_POP THEN SubSeq(SortByAge(s, Len(s)), 1, MAX_POP) ELSE s

\* The ids a new Resource object can take: not an object that is live or
\* still referenced from the grid.
GridResIds(g) ==
    UNION { { e.id : e \in { x \in SeqToSet(g[k]) : x.kind = "res" } } : k \in DOMAIN g }

FreshResId(R, g) ==
    CHOOSE n \in 1 .. (2 * RESOURCE_CAP + 2) :
        /\ n \notin DOMAIN R \cup GridResIds(g)
        /\ \A m \in 1 .. (n - 1) : m \in DOMAIN R \cup GridResIds(g)

\* Mutant of BelowCap: the cap is not tested.
BelowCap_Always(n) == TRUE

\* Phase 7's guard: len(self.resources) below the cap.
BelowCap(n) == n < RESOURCE_CAP

\* Mutant of Regenerate: the chosen spawner is used up.
Regenerate_ConsumesSpawner(sps, s, off) ==
    [ spawners |-> SelectSeq(sps, LAMBDA sp : sp # sps[s]),
      resource |-> Spawn(sps[s], off) ]

\* Phase 7: random.choice(self.spawners).spawn() with s the chosen spawner;
\* the spawner list is read, not changed.
Regenerate(sps, s, off) ==
    [ spawners |-> sps, resource |-> Spawn(sps[s], off) ]

\* Mutant of Skipped: dead agents are not skipped.
Skipped_Never(a) == FALSE

\* `if not a.alive: continue` at the top of the agent loop.
Skipped(a) == ~a.alive

NoStep == [ stepped |-> FALSE ]

\* The time fields of Simulation.__init__; the accumulator is in tenths.
NewClock == [ accumulator |-> 0, paused |-> FALSE, time_scale |-> 1, stats_timer |-> 0 ]

\* Simulation.__init__: INITIAL_POP fresh agents, the spawners, no resource.
SimInit ==
    /\ agents \in [ 1 .. INITIAL_POP -> FreshAgents ]
    /\ spawners = << FoodSpawner, WaterSpawner >>
    /\ resources = {}
    /\ res = << >>
    /\ grid = EmptyGrid
    /\ new_agents = << >>
    /\ active_agents = << >>
    /\ idx = 0
    /\ pc = "idle"
    /\ ticks = 0
    /\ prev_count = INITIAL_POP
    /\ dead_at_start = {}
    /\ credited = << >>
    /\ last = NoStep

\* _step, phases 1 and 2: rebuild the grid from the resources and the agents,
\* then auto-seed SEED_COUNT fresh agents when the population is below MIN_POP
\* (the seeded agents are not in the grid of this tick).
StepBegin ==
    /\ pc = "idle"
    /\ ticks < MaxTicks
    /\ LET live == [ r \in resources |-> res[r] ]
       IN  /\ res' = live
           /\ grid' = RebuildGrid(agents, live, resources)
           /\ credited' = [ r \in resources |-> 0 ]
    /\ IF NeedsSeed(agents)
       THEN \E batch \in SeedBatches(SEED_COUNT) : agents' = agents \o batch
       ELSE agents' = agents
    /\ prev_count' = Len(agents)
    /\ dead_at_start' = { k \in 1 .. Len(agents) : ~agents[k].alive }
    /\ new_agents' = << >>
    /\ active_agents' = << >>
    /\ idx' = 1
    /\ pc' = "loop"
    /\ last' = NoStep
    /\ UNCHANGED << resources, spawners, ticks, net, clock, probe >>

\* The partition of get_nearby's result for agent i (phase 3).
SensedFood(nearby, R) ==
    SelectSeq(nearby, LAMBDA e : e.kind = "res" /\ R[e.id].active /\ R[e.id].type = "food")
SensedWater(nearby, R) ==
    SelectSeq(nearby, LAMBDA e : e.kind = "res" /\ R[e.id].active /\ R[e.id].type # "food")
SensedOthers(nearby, i) ==
    SelectSeq(nearby, LAMBDA e : e.kind = "agent" /\ e.id # i)

Ids(ents) == [ k \in 1 .. Len(ents) |-> ents[k].id ]

\* The agent list after a.update: agent i replaced by the updated agent and
\* every agent of `others` by what the hunter loop left of it.
WriteBack(as, i, others, upd) ==
    [ k \in 1 .. Len(as) |->
        IF k = i THEN upd.self
        ELSE IF \E n \in 1 .. Len(others) : others[n] = k
             THEN upd.others[CHOOSE n \in 1 .. Len(others) : others[n] = k]
             ELSE as[k] ]

\* One iteration of `for a in self.agents` (phases 3 to 5) on a live agent.
StepLive(i, repro, rnd) ==
    LET a0      == agents[i]
        nearby  == GetNearby(grid, a0.pos, a0.dna.sense)
        food    == Ids(SensedFood(nearby, res))
        water   == Ids(SensedWater(nearby, res))
        others  == Ids(SensedOthers(nearby, i))
        upd     == AgentUpdate(a0, 1, MoveOf(a0), [ n \in 1 .. Len(others) |-> agents[others[n]] ])
        eaten   == ConsumeLoop([ a |-> upd.self, res |-> res, live |-> resources,
                                 credited |-> credited, ate |-> {} ], food, 1)
        drunk   == DrinkLoop(eaten.a, res, water, 1, 1)
        can     == MayReproduce(drunk, Len(agents))
        parent  == IF repro THEN [ drunk EXCEPT !.energy = @ - REPRO_COST ] ELSE drunk
        written == WriteBack(agents, i, others, [ self |-> parent, others |-> upd.others ])
        kids    == IF repro THEN Append(new_agents, Reproduce(parent, rnd))
                   ELSE new_agents
    IN  /\ repro => can
        /\ agents' = written
        /\ res' = eaten.res
        /\ resources' = eaten.live
        /\ credited' = eaten.credited
        /\ new_agents' = kids
        /\ active_agents' = IF parent.alive THEN Append(active_agents, i) ELSE active_agents
        /\ last' = [ stepped |-> TRUE, i |-> i, before |-> a0, moved |-> upd.self,
                     fed |-> eaten.a, after |-> parent, food |-> SeqToSet(food),
                     ate |-> eaten.ate, others |-> SeqToSet(others), repro |-> repro,
                     decayed |-> Metabolize(a0, 1, MoveOf(a0)),
                     drunk |-> drunk,
                     born |-> SubSeq(kids, Len(new_agents) + 1, Len(kids)),
                     hits |-> { k \in SeqToSet(others) : written[k].energy # agents[k].energy },
                     dead_hits |-> { k \in SeqToSet(others) :
                                       written[k].energy # agents[k].energy /\ ~agents[k].alive } ]

\* `for a in self.agents`: a dead agent is skipped, a live one is stepped.
AgentStep ==
    /\ pc = "loop"
    /\ idx <= Len(agents)
    /\ IF Skipped(agents[idx])
       THEN /\ last' = NoStep
            /\ UNCHANGED << agents, res, resources, credited, new_agents, active_agents >>
       ELSE \E rnd \in SimDraws :
              \/ StepLive(idx, FALSE, rnd)
              \/ StepLive(idx, TRUE, rnd)
    /\ idx' = idx + 1
    /\ UNCHANGED << pc, grid, spawners, ticks, prev_count, dead_at_start, net, clock, probe >>

\* active_agents, as the agent objects it refers to.
Survivors(as, active) == [ k \in 1 .. Len(active) |-> as[active[k]] ]

\* _step after the loop: the survivors and the offspring replace the agent
\* list, the soft limit culls it, and a resource may be regenerated.
StepEnd ==
    /\ pc = "loop"
    /\ idx > Len(agents)
    /\ agents' = Cull(Survivors(agents, active_agents) \o new_agents)
    /\ IF BelowCap(Cardinality(resources))
       THEN \/ UNCHANGED << resources, res, spawners >>
            \/ \E s \in 1 .. Len(spawners) : \E off \in SpawnOffsets(spawners[s]) :
                 LET id  == FreshResId(res, grid)
                     reg == Regenerate(spawners, s, off)
                 IN  /\ resources' = resources \cup {id}
                     /\ res' = [ r \in DOMAIN res \cup {id} |->
                                   IF r = id THEN reg.resource ELSE res[r] ]
                     /\ spawners' = reg.spawners
       ELSE UNCHANGED << resources, res, spawners >>
    /\ new_agents' = << >>
    /\ active_agents' = << >>
    /\ idx' = 0
    /\ pc' = "idle"
    /\ ticks' = ticks + 1
    /\ last' = [ stepped |-> FALSE, merged |-> Len(active_agents) + Len(new_agents),
                 pool |-> Survivors(agents, active_agents) \o new_agents ]
    /\ UNCHANGED << grid, prev_count, dead_at_start, credited, net, clock, probe >>

RECURSIVE SumSeq(_)
\* Python's sum over a generator.
SumSeq(s) == IF s = << >> THEN 0 ELSE Head(s) + SumSeq(Tail(s))

ArchetypeNames == << "GATHERER", "HUNTER", "EXPLORER" >>

RECURSIVE ChampLoop(_, _, _)
\* The champion search of _update_stats from position k on.  champs maps an
\* archetype to the position in the list of its champion, 0 for None.
ChampLoop(s, k, champs) ==
    IF k > Len(s) THEN champs
    ELSE LET t == s[k].archetype
         IN  ChampLoop(s, k + 1,
                       IF champs[t] = 0 \/ s[k].age > s[champs[t]].age
                       THEN [ champs EXCEPT ![t] = k ] ELSE champs)

\* _update_stats on a non-empty list: the sums behind the two averages, the
\* counts, the dominant type (the first key of maximal count) and the
\* champions.
UpdateStats(s) ==
    LET counts == [ t \in SeqToSet(ArchetypeNames) |->
                      Cardinality({ k \in 1 .. Len(s) : s[k].archetype = t }) ]
        first  == CHOOSE n \in 1 .. Len(ArchetypeNames) :
                    /\ \A m \in 1 .. Len(ArchetypeNames) :
                         counts[ArchetypeNames[m]] <= counts[ArchetypeNames[n]]
                    /\ \A m \in 1 .. (n - 1) :
                         counts[ArchetypeNames[m]] < counts[ArchetypeNames[n]]
    IN  [ total_speed   |-> SumSeq([ k \in 1 .. Len(s) |-> s[k].dna.speed ]),
          total_age     |-> SumSeq([ k \in 1 .. Len(s) |-> s[k].age ]),
          len           |-> Len(s),
          type_counts   |-> counts,
          dominant_type |-> ArchetypeNames[first],
          champions     |-> ChampLoop(s, 1, [ t \in SeqToSet(ArchetypeNames) |-> 0 ]) ]

\* The number of _update_stats calls so far.
StatsCalls == IF probe.op = "stats" THEN probe.calls ELSE 0

\* self._update_stats() between two ticks, when the stats timer of update()
\* has run out; it returns at once on an empty agent list.  probe.of is the
\* list the statistics were computed from.
CallUpdateStats ==
    /\ pc = "idle"
    /\ agents # << >>
    /\ StatsCalls < MaxStats
    /\ probe' = [ op |-> "stats", of |-> agents, stats |-> UpdateStats(agents),
                  calls |-> StatsCalls + 1 ]
    /\ UNCHANGED << agents, new_agents, active_agents, idx, pc, resources, res, grid,
                    spawners, ticks, prev_count, dead_at_start, credited, last, net, clock >>

Next == StepBegin \/ AgentStep \/ StepEnd

NoCall == [ op |-> "none" ]

Init == SimInit /\ net = << >> /\ clock = NewClock /\ probe = NoCall

Spec == Init /\ [][Next]_vars

\* The simulation with the statistics of update() recomputed between ticks,
\* explored up to the MaxStats-th recomputation.
StatsTick == StatsCalls < MaxStats /\ (StepBegin \/ AgentStep \/ StepEnd)

StatsNext == StatsTick \/ CallUpdateStats

SpecStats == Init /\ [][StatsNext]_vars

\* A tick has just completed.
EndOfTick == pc = "idle" /\ ticks > 0

\* An iteration of the agent loop has just stepped a live agent.
Stepped == pc = "loop" /\ last.stepped

-----------------------------------------------------------------------------
\* C1: after every tick the number of agents is at most MAX_POP.
C1_PopulationCeiling == pc = "idle" => Len(agents) <= MAX_POP

\* C1 witness: a tick whose survivors plus offspring exceeded MAX_POP has
\* completed and left exactly MAX_POP agents.
C1_Witness == EndOfTick /\ last.merged > MAX_POP /\ Len(agents) = MAX_POP

\* C2 as claimed: a count below MIN_POP (and above zero) at the end of a tick
\* is at least MIN_POP at the end of the following tick.
C2_FloorRestoredNextTick ==
    (EndOfTick /\ ticks >= 2 /\ prev_count > 0 /\ prev_count < MIN_POP)
        => Len(agents) >= MIN_POP

\* C2 amended: a tick that starts with fewer than MIN_POP agents adds exactly
\* SEED_COUNT fresh agents before the agent loop, and adds none otherwise.
C2_SeedBatch ==
    pc = "loop" =>
        Len(agents) = prev_count + (IF prev_count < MIN_POP THEN SEED_COUNT ELSE 0)

\* C2 witness: the agent loop of a tick that began below the floor with at
\* least one agent.
C2_Witness == pc = "loop" /\ ticks >= 1 /\ prev_count > 0 /\ prev_count < MIN_POP

\* C3: within a tick every food resource is credited to at most one agent,
\* and a credited resource is inactive and out of the live set.
C3_ExclusiveConsumption ==
    \A r \in DOMAIN credited :
        /\ credited[r] <= 1
        /\ credited[r] = 1 => (~res[r].active /\ r \notin resources)

\* C3 witness: two agents have been stepped in this tick and both stand
\* within the capture radius of a resource that was credited once.
C3_Witness ==
    /\ pc = "loop"
    /\ \E r \in DOMAIN credited : \E i, j \in 1 .. Len(agents) :
         /\ credited[r] = 1
         /\ i < j /\ j < idx
         /\ i \in SeqToSet(active_agents) /\ j \in SeqToSet(active_agents)
         /\ InCapture(agents[i].pos, res[r].pos)
         /\ InCapture(agents[j].pos, res[r].pos)


\* The case of C10 for resource r: the agent just stepped was, at the start
\* of the tick, at distance exactly 15 px from the food resource r, which was
\* live and active then and has not been eaten by another agent, and no other
\* agent is within 100 px of r.
C10_Case(r) ==
    /\ Stepped
    /\ r \in DOMAIN credited
    /\ res[r].type = "food"
    /\ (credited[r] = 0 \/ r \in last.ate)
    /\ WithinRadius(last.before.pos, res[r].pos, Px(15))
    /\ ~WithinRadius(last.before.pos, res[r].pos, Px(15) - 1)
    /\ \A k \in 1 .. Len(agents) :
         k # last.i => ~WithinRadius(agents[k].pos, res[r].pos, Px(100))

\* The agent just stepped consumed r: energy credited and capped, r inactive
\* and out of the live set.
C10_Consumed(r) ==
    /\ r \in last.ate
    /\ r \notin resources
    /\ ~res[r].active
    /\ last.fed.energy =
         Min(STAT_CAP, last.moved.energy + FOOD_GAIN * Cardinality(last.ate))

\* C10 as claimed: a food resource at distance 15 from a live agent at the
\* start of a tick, with no other agent near, is consumed by that agent in
\* the tick.
C10_ConsumedAtDistance15 ==
    \A r \in DOMAIN res : C10_Case(r) => C10_Consumed(r)

\* C10 amended: such a resource is consumed exactly when the agent, after its
\* own move of the tick, is still within the capture radius of it.
C10_ConsumedIffStillInRange ==
    \A r \in DOMAIN res :
        C10_Case(r) =>
            /\ r \in last.ate <=> InCapture(last.moved.pos, res[r].pos)
            /\ r \in last.ate => C10_Consumed(r)

\* C10 witness: an agent that started the tick at distance 15 from the
\* resource, moved and consumed it.
C10_Witness ==
    \E r \in DOMAIN res :
        C10_Case(r) /\ C10_Consumed(r) /\ last.moved.pos # last.before.pos

-----------------------------------------------------------------------------
(* SpatialGrid on its own: entities are inserted at positions an entity of  *)
(* the simulation can have when the grid is rebuilt, and queried.           *)

\* The simulation's variables, unused by the function specifications.
SimParked ==
    /\ agents = << >> /\ new_agents = << >> /\ active_agents = << >>
    /\ idx = 0 /\ pc = "parked" /\ resources = {} /\ res = << >>
    /\ spawners = << >> /\ ticks = 0 /\ prev_count = 0 /\ credited = << >>
    /\ dead_at_start = {}
    /\ last = NoStep /\ clock = NewClock

parked == << agents, new_agents, active_agents, idx, pc, resources, res,
             spawners, ticks, prev_count, dead_at_start, credited, last, clock >>

\* Positions of inserted entities: wrapped positions (resources, agents that
\* were updated) and positions of newborn agents, parent position + offset
\* with each offset coordinate in [-30, 30], which are not wrapped.
GridPositions ==
    { << Px(5), Px(100) >>, << Px(100), Px(100) >>, << Px(450), Px(100) >>,
      << Px(4990), Px(4990) >>,
      VecAdd(<< Px(5), Px(100) >>, << -Px(CHILD_OFFSET), 0 >>),
      VecAdd(<< Px(100), Px(5) >>, << 0, -Px(10) >>),
      VecAdd(<< Px(4990), Px(4990) >>, << Px(CHILD_OFFSET), Px(CHILD_OFFSET) >>) }

\* Radii: a child's sense (at most 1.0), 50 (the test's), a fresh agent's sense.
GridRadii == { Px(1), Px(50), Px(300) }

GridInit ==
    /\ SimParked
    /\ grid = EmptyGrid
    /\ net = << >>
    /\ probe = [ op |-> "grid", ents |-> << >>, asked |-> FALSE ]

\* grid.insert(entity): entity k is the k-th inserted, ents[k] its position.
GridInsertEntity ==
    /\ Len(probe.ents) < MaxEnts
    /\ \E pos \in GridPositions :
         /\ grid' = GridInsert(grid, AgentEnt(Len(probe.ents) + 1), pos)
         /\ probe' = [ op |-> "grid", ents |-> Append(probe.ents, pos), asked |-> FALSE ]
    /\ UNCHANGED << parked, net >>

\* grid.get_nearby(p, r).
GridQuery ==
    /\ \E p \in GridPositions, r \in GridRadii :
         probe' = [ op |-> "grid", ents |-> probe.ents, asked |-> TRUE,
                    p |-> p, r |-> r, nearby |-> GetNearby(grid, p, r) ]
    /\ UNCHANGED << parked, grid, net >>

\* grid.clear().
GridClear ==
    /\ probe.ents # << >>
    /\ grid' = EmptyGrid
    /\ probe' = [ op |-> "grid", ents |-> << >>, asked |-> FALSE ]
    /\ UNCHANGED << parked, net >>

GridNext == GridInsertEntity \/ GridQuery \/ GridClear

SpecGrid == GridInit /\ [][GridNext]_vars

\* The entities returned by the last query cover the inserted entities k of
\* the set K that lie within distance r of p.
GridCovers(K) ==
    \A k \in K :
        WithinRadius(probe.ents[k], probe.p, probe.r)
            => AgentEnt(k) \in SeqToSet(probe.nearby)

\* C4 as claimed: for any placement, newborn positions included, get_nearby(p, r)
\* returns every inserted entity whose exact distance to p is at most r.
C4_NearbySuperset ==
    (probe.op = "grid" /\ probe.asked) => GridCovers(1 .. Len(probe.ents))

\* C4, the part that holds: entities inserted at positions inside the world
\* are returned.
C4_NearbySupersetInWorld ==
    (probe.op = "grid" /\ probe.asked)
        => GridCovers({ k \in 1 .. Len(probe.ents) : InWorld(probe.ents[k]) })

\* C4 witness: a query returned an entity within the radius.
C4_Witness ==
    /\ probe.op = "grid" /\ probe.asked
    /\ \E k \in 1 .. Len(probe.ents) :
         /\ WithinRadius(probe.ents[k], probe.p, probe.r)
         /\ probe.ents[k] # probe.p
         /\ AgentEnt(k) \in SeqToSet(probe.nearby)

-----------------------------------------------------------------------------
(* Agent.reproduce and Agent.update on their own.                           *)

North == << 0, 1 >>

\* Genomes of fresh agents (sense 300-600) and of descendants (every trait
\* clamped by an earlier reproduce), with traits on and off the clamp bounds.
AgentDnas ==
    { [ speed |-> 14, sense |-> Px(300), hunter_factor |-> 3, exploration_drive |-> 3 ],
      [ speed |-> 8,  sense |-> Px(600), hunter_factor |-> 9, exploration_drive |-> 0 ],
      [ speed |-> 10, sense |-> TRAIT_MAX, hunter_factor |-> TRAIT_MAX, exploration_drive |-> TRAIT_MIN ],
      [ speed |-> TRAIT_MIN, sense |-> TRAIT_MAX, hunter_factor |-> 2, exploration_drive |-> 8 ] }

AgentEnergies == { 100, 60, 5 }
AgentThirsts  == { 100, 30 }

\* The agents reproduce and update are called on.
SubjectAgents ==
    { [ NewAgent(PosA, Cruise, g, dna, East) EXCEPT !.energy = e, !.thirst = t ] :
        g \in { 1, 2 }, dna \in AgentDnas, e \in AgentEnergies, t \in AgentThirsts }

\* reproduce's draws: every combination of extreme trait noise, two offsets.
ReproduceDraws ==
    { [ noise |-> n, offset |-> o, brain |-> Cruise, dir |-> East ] :
        n \in [ 1 .. 4 -> { -1, 1 } ],
        o \in { << -Px(CHILD_OFFSET), 0 >>, << Px(10), Px(CHILD_OFFSET) >> } }

\* The controller's outputs and resulting heading of an update.
UpdateMoves ==
    { [ thrust |-> 9, rotate |-> 0, dir |-> East ],
      [ thrust |-> -10, rotate |-> 10, dir |-> North ] }

UpdateDts == { 1, 2 }

\* Visible-agents lists: none, one agent far away, agents ahead of the
\* subject that are within 20 px of it after it has moved.
Bystander(pos, e) == [ NewAgent(pos, Cruise, 1,
    [ speed |-> 10, sense |-> Px(300), hunter_factor |-> 3, exploration_drive |-> 3 ],
    East) EXCEPT !.energy = e ]

VisibleLists ==
    { << >>,
      << Bystander(VecAdd(PosA, << Px(200), 0 >>), 100) >>,
      << Bystander(VecAdd(PosA, << 56 + Px(10), 0 >>), 100) >>,
      << Bystander(VecAdd(PosA, << Px(5), Px(5) >>), 30),
         Bystander(VecAdd(PosA, << 0, Px(10) >>), 100) >> }

AgentInit ==
    /\ SimParked
    /\ grid = EmptyGrid
    /\ net = << >>
    /\ probe = NoCall

\* child = a.reproduce()
CallReproduce ==
    /\ \E a \in SubjectAgents, rnd \in ReproduceDraws :
         probe' = [ op |-> "reproduce", parent |-> a, rnd |-> rnd,
                    parent_after |-> a, child |-> Reproduce(a, rnd) ]
    /\ UNCHANGED << parked, grid, net >>

\* a.update(dt, [], [], others)
CallUpdate ==
    /\ \E a \in SubjectAgents, dt \in UpdateDts, mv \in UpdateMoves,
          others \in VisibleLists :
         probe' = [ op |-> "update", before |-> a, dt |-> dt, others |-> others,
                    decayed |-> Metabolize(a, dt, mv),
                    result |-> AgentUpdate(a, dt, mv, others) ]
    /\ UNCHANGED << parked, grid, net >>

AgentNext == CallReproduce \/ CallUpdate

SpecAgent == AgentInit /\ [][AgentNext]_vars

TraitNames == { "speed", "sense", "hunter_factor", "exploration_drive" }

\* C5: the child of reproduce has the parent's generation + 1, every trait
\* within [0.1, 1.0], fresh energy and thirst, age 0 and is alive; the parent's
\* genome and generation are unchanged.
C5_ChildOfReproduce ==
    probe.op = "reproduce" =>
        /\ probe.child.gen = probe.parent.gen + 1
        /\ \A t \in TraitNames :
             probe.child.dna[t] >= TRAIT_MIN /\ probe.child.dna[t] <= TRAIT_MAX
        /\ probe.child.energy = BASE_STAT /\ probe.child.thirst = BASE_STAT
        /\ probe.child.age = 0 /\ probe.child.alive
        /\ probe.parent_after.dna = probe.parent.dna
        /\ probe.parent_after.gen = probe.parent.gen

\* C5 witness: a parent low on energy and thirst whose traits plus noise
\* leave [0.1, 1.0] on both sides.
C5_Witness ==
    /\ probe.op = "reproduce"
    /\ probe.parent.energy < BASE_STAT /\ probe.parent.thirst < BASE_STAT
    /\ probe.parent.dna.speed + probe.rnd.noise[1] < TRAIT_MIN
    /\ probe.parent.dna.sense + probe.rnd.noise[2] > TRAIT_MAX
    /\ probe.child.dna.speed = TRAIT_MIN /\ probe.child.dna.sense = TRAIT_MAX

\* The agents of the last update's visible list within capture distance of
\* the updated agent.
C6_InReach ==
    { k \in 1 .. Len(probe.others) :
        InCapture(probe.result.self.pos, probe.others[k].pos) }

-----------------------------------------------------------------------------
(* core/brain.py: NeuralNetwork.  Weights, inputs and activations are in    *)
(* hundredths.                                                              *)

\* Mutant of Tanh: no activation.
Tanh_Identity(x) == x

\* math.tanh on IEEE doubles, in hundredths.  For |x| >= 19.07 the result
\* rounds to exactly 1.0 (-1.0); below that it is strictly inside (-1, 1):
\* linear between the values at 0, 0.5, 1, 2 and 3, at most 0.99.
Tanh(x) ==
    LET a == Abs(x)
        t == IF a >= 1907 THEN 100
             ELSE IF a >= 300 THEN 99
             ELSE IF a >= 200 THEN 96 + ((a - 200) * 3) \div 100
             ELSE IF a >= 100 THEN 76 + ((a - 100) * 20) \div 100
             ELSE IF a >= 50  THEN 46 + ((a - 50) * 30) \div 50
             ELSE (a * 46) \div 50
    IN  IF x < 0 THEN -t ELSE t

\* NeuralNetwork.__init__(weights, num_hidden) with weights given: the
\* activation buffers are zeroed at the lengths num_hidden and num_out.
NeuralNetwork(w_ih, w_ho, num_hidden) ==
    [ num_hidden |-> num_hidden, w_ih |-> w_ih, w_ho |-> w_ho,
      ax_hid |-> [ j \in 1 .. num_hidden |-> 0 ],
      ax_out |-> [ j \in 1 .. NUM_OUT |-> 0 ] ]

\* NeuralNetwork(): HID_NODES hidden nodes, weights drawn from uniform(-1, 1);
\* here every weight is the same draw w.
FreshNetwork(w) ==
    NeuralNetwork([ i \in 1 .. NUM_IN |-> [ j \in 1 .. HID_NODES |-> w ] ],
                  [ j \in 1 .. HID_NODES |-> [ k \in 1 .. NUM_OUT |-> w ] ],
                  HID_NODES)

\* val of predict's step 1 for hidden node j.
HiddenSum(n, inputs, j) ==
    SumSeq([ i \in 1 .. NUM_IN |-> inputs[i] * n.w_ih[i][j] ]) \div 100

\* val of predict's step 2 for output j.
OutputSum(n, hid, j) ==
    SumSeq([ i \in 1 .. n.num_hidden |-> hid[i] * n.w_ho[i][j] ]) \div 100

\* NeuralNetwork.predict(inputs): fills ax_hid[0 .. num_hidden-1] and ax_out
\* and returns ax_out.
Predict(n, inputs) ==
    LET hid == [ j \in DOMAIN n.ax_hid |->
                   IF j <= n.num_hidden THEN Tanh(HiddenSum(n, inputs, j))
                   ELSE n.ax_hid[j] ]
        out == [ j \in 1 .. NUM_OUT |-> Tanh(OutputSum(n, hid, j)) ]
    IN  [ net |-> [ n EXCEPT !.ax_hid = hid, !.ax_out = out ], out |-> out ]

\* _mut_w with the draws of rnd: delta is 0 when the weight is not selected.
MutW(w, delta) == w + delta

\* Mutant of CanGrow: the size guard is dropped.
CanGrow_Always(h) == TRUE

\* The size guard of the add branch.
CanGrow(h) == h < MAX_HIDDEN_NODES

\* Mutant of AddNode: no row is appended to new_ho.
AddNode_NoOutputRow(ih, ho, h, fresh) ==
    NeuralNetwork([ i \in 1 .. NUM_IN |-> Append(ih[i], fresh) ], ho, h + 1)

\* The add branch: a fresh weight appended to every row of new_ih, a fresh
\* row appended to new_ho.
AddNode(ih, ho, h, fresh) ==
    NeuralNetwork([ i \in 1 .. NUM_IN |-> Append(ih[i], fresh) ],
                  Append(ho, [ k \in 1 .. NUM_OUT |-> fresh ]), h + 1)

\* The remove branch: the last entry of every row of new_ih and the last row
\* of new_ho are popped.
RemoveNode(ih, ho, h) ==
    NeuralNetwork([ i \in 1 .. NUM_IN |-> SubSeq(ih[i], 1, Len(ih[i]) - 1) ],
                  SubSeq(ho, 1, Len(ho) - 1), h - 1)

\* The list objects that hold the rows of a controller's two matrices.
RowIds(n) ==
    [ ih |-> [ i \in 1 .. Len(n.w_ih) |-> << "w_ih", i >> ],
      ho |-> [ j \in 1 .. Len(n.w_ho) |-> << "w_ho", j >> ] ]

\* Mutant of NewRowIds: the rows of the original are reused.
NewRowIds_Aliased(ids, n_ho) ==
    [ ih |-> ids.ih,
      ho |-> [ j \in 1 .. n_ho |->
                 IF j <= Len(ids.ho) THEN ids.ho[j] ELSE << "new_ho", j >> ] ]

\* The list objects of new_ih and new_ho: each comprehension builds one new
\* list per row, and the add branch appends one more new list to new_ho.
NewRowIds(ids, n_ho) ==
    [ ih |-> [ i \in 1 .. Len(ids.ih) |-> << "new_ih", i >> ],
      ho |-> [ j \in 1 .. n_ho |-> << "new_ho", j >> ] ]

\* The original controller as read back after mutate wrote the rows of the
\* returned controller c into the list objects cids: a row of the original
\* held in one of those objects now has c's content.
ReadBack(n, ids, c, cids) ==
    [ n EXCEPT
        !.w_ih = [ i \in 1 .. Len(n.w_ih) |->
                     IF \E k \in 1 .. Len(cids.ih) : cids.ih[k] = ids.ih[i]
                     THEN c.w_ih[CHOOSE k \in 1 .. Len(cids.ih) : cids.ih[k] = ids.ih[i]]
                     ELSE n.w_ih[i] ],
        !.w_ho = [ j \in 1 .. Len(n.w_ho) |->
                     IF \E k \in 1 .. Len(cids.ho) : cids.ho[k] = ids.ho[j]
                     THEN c.w_ho[CHOOSE k \in 1 .. Len(cids.ho) : cids.ho[k] = ids.ho[j]]
                     ELSE n.w_ho[j] ] ]

\* Mutant of Mutate: a structural draw that the guards refuse changes nothing.
Mutate_SkipsRefusedDraw(n, rnd) ==
    LET new_ih == [ i \in 1 .. Len(n.w_ih) |->
                      [ j \in 1 .. Len(n.w_ih[i]) |-> MutW(n.w_ih[i][j], rnd.delta) ] ]
        new_ho == [ j \in 1 .. Len(n.w_ho) |->
                      [ k \in 1 .. Len(n.w_ho[j]) |-> MutW(n.w_ho[j][k], rnd.delta) ] ]
        h      == n.num_hidden
    IN  IF rnd.struct = "grow" /\ CanGrow(h) THEN AddNode(new_ih, new_ho, h, rnd.fresh)
        ELSE IF rnd.struct = "shrink" /\ h > MIN_HIDDEN_NODES THEN RemoveNode(new_ih, new_ho, h)
        ELSE NeuralNetwork(new_ih, new_ho, h)

\* NeuralNetwork.mutate.  rnd.delta: the change of the mutated weights (every
\* weight is selected, or none when delta = 0); rnd.struct: "none" when the
\* structural draw fails, else "grow" or "shrink" by the second draw;
\* rnd.fresh: the weights of an added node.
Mutate(n, rnd) ==
    LET new_ih == [ i \in 1 .. Len(n.w_ih) |->
                      [ j \in 1 .. Len(n.w_ih[i]) |-> MutW(n.w_ih[i][j], rnd.delta) ] ]
        new_ho == [ j \in 1 .. Len(n.w_ho) |->
                      [ k \in 1 .. Len(n.w_ho[j]) |-> MutW(n.w_ho[j][k], rnd.delta) ] ]
        h      == n.num_hidden
    IN  IF rnd.struct = "none" THEN NeuralNetwork(new_ih, new_ho, h)
        ELSE IF rnd.struct = "grow" /\ CanGrow(h) THEN AddNode(new_ih, new_ho, h, rnd.fresh)
        ELSE IF h > MIN_HIDDEN_NODES THEN RemoveNode(new_ih, new_ho, h)
        ELSE NeuralNetwork(new_ih, new_ho, h)

\* The draws of NeuralNetwork(): weights 0.9 or -0.5.
FreshWeights == { 90, -50 }

\* The draws of mutate: no weight or every weight changed by +0.2, any
\* structural draw, an added node with weights 0.9.
MutateDraws ==
    { [ delta |-> d, struct |-> st, fresh |-> 90 ] :
        d \in { 0, 20 }, st \in { "none", "grow", "shrink" } }

\* Input vectors: the test's eight 0.5s, saturated senses and stats, and a
\* mixed vector with negative angles and outputs.
InputVectors ==
    { [ i \in 1 .. NUM_IN |-> 50 ],
      [ i \in 1 .. NUM_IN |-> 100 ],
      << 30, -100, 100, 0, 80, 20, -100, 100 >> }

BrainInit ==
    /\ SimParked
    /\ grid = EmptyGrid
    /\ \E w \in FreshWeights : net = FreshNetwork(w)
    /\ probe = [ op |-> "none", calls |-> 0 ]

\* net = net.mutate(): the lineage of controllers along reproductions.
CallMutate ==
    /\ probe.calls < MaxMutations
    /\ \E rnd \in MutateDraws :
         LET child == Mutate(net, rnd)
             ids   == RowIds(net)
             cids  == NewRowIds(ids, Len(child.w_ho))
         IN  /\ net' = child
             /\ probe' = [ op |-> "mutate", calls |-> probe.calls + 1,
                           from |-> net.num_hidden, rnd |-> rnd,
                           original |-> net,
                           original_after |-> ReadBack(net, ids, child, cids),
                           shared |-> (SeqToSet(ids.ih) \cup SeqToSet(ids.ho))
                                        \cap (SeqToSet(cids.ih) \cup SeqToSet(cids.ho)) ]
    /\ UNCHANGED << parked, grid >>

\* net.predict(inputs)
CallPredict ==
    /\ \E inputs \in InputVectors :
         LET p == Predict(net, inputs)
         IN  /\ net' = p.net
             /\ probe' = [ op |-> "predict", calls |-> probe.calls,
                           inputs |-> inputs, out |-> p.out ]
    /\ UNCHANGED << parked, grid >>

BrainNext == CallMutate \/ CallPredict

SpecBrain == BrainInit /\ [][BrainNext]_vars

\* C7: the hidden width of every controller produced by mutate stays within
\* [2, MAX_HIDDEN_NODES]; mutate at MAX_HIDDEN_NODES never widens.
C7_HiddenWidthBounded ==
    /\ net.num_hidden >= MIN_HIDDEN_NODES /\ net.num_hidden <= MAX_HIDDEN_NODES
    /\ (probe.op = "mutate" /\ probe.from = MAX_HIDDEN_NODES)
           => net.num_hidden <= MAX_HIDDEN_NODES

\* C7 witness: mutate drew the add branch on a controller at MAX_HIDDEN_NODES.
C7_Witness ==
    /\ probe.op = "mutate"
    /\ probe.from = MAX_HIDDEN_NODES
    /\ probe.rnd.struct = "grow"

\* C8: w_ih has 8 rows of length num_hidden, w_ho has num_hidden rows of
\* length 2, and ax_hid has length num_hidden.
C8_ShapesAgree ==
    /\ Len(net.w_ih) = NUM_IN
    /\ \A i \in 1 .. Len(net.w_ih) : Len(net.w_ih[i]) = net.num_hidden
    /\ Len(net.w_ho) = net.num_hidden
    /\ \A j \in 1 .. Len(net.w_ho) : Len(net.w_ho[j]) = NUM_OUT
    /\ Len(net.ax_hid) = net.num_hidden

\* C8 witness: a mutate call with a weight mutation and a structural change.
C8_Witness ==
    /\ probe.op = "mutate"
    /\ probe.rnd.delta # 0
    /\ net.num_hidden # probe.from

\* C9 as claimed: predict returns two values, each strictly between -1 and 1.
C9_OutputsStrictlyInside ==
    probe.op = "predict" =>
        /\ Len(probe.out) = NUM_OUT
        /\ \A j \in 1 .. Len(probe.out) : probe.out[j] > -100 /\ probe.out[j] < 100

\* C9 amended: predict returns two values, each in the closed interval [-1, 1].
C9_OutputsWithinClosed ==
    probe.op = "predict" =>
        /\ Len(probe.out) = NUM_OUT
        /\ \A j \in 1 .. Len(probe.out) : probe.out[j] >= -100 /\ probe.out[j] <= 100

\* C9 witness: a predict call whose output is exactly 1.0.
C9_Witness ==
    /\ probe.op = "predict"
    /\ \E j \in 1 .. Len(probe.out) : probe.out[j] = 100

-----------------------------------------------------------------------------
\* C11 as claimed: after every tick, every agent of the agent list has its
\* liveness flag set.
C11_NoDeadAgentAfterTick ==
    EndOfTick => \A k \in 1 .. Len(agents) : agents[k].alive

\* C11, the part that holds: an agent whose flag is clear when its own
\* iteration ends is not appended to active_agents.
C11_DeadAtOwnTurnDropped ==
    (Stepped /\ ~last.after.alive) => last.i \notin SeqToSet(active_agents)

\* C12: a new Simulation has INITIAL_POP agents and a non-empty spawner list,
\* and the spawner list is the one of construction in every state.
C12_SpawnersPermanent ==
    /\ spawners # << >>
    /\ spawners = << FoodSpawner, WaterSpawner >>
    /\ (pc = "idle" /\ ticks = 0) => Len(agents) = INITIAL_POP

\* C12 witness: ticks have run and a spawner has produced a resource.
C12_Witness ==
    /\ EndOfTick /\ ticks >= 2
    /\ resources # {}
    /\ spawners = << FoodSpawner, WaterSpawner >>

-----------------------------------------------------------------------------
(* Simulation.update(dt): the fixed-step accumulator.  _step reads and      *)
(* writes none of the time fields; its body is the subject of Spec, and     *)
(* here a tick only counts.  day_progress and the statistics are            *)
(* presentation state and left out.  Times are in tenths.                   *)

\* Mutant of CapAccumulator: no safety cap.
CapAccumulator_None(acc) == acc

\* `if self.accumulator > 10.0: self.accumulator = 10.0`.
CapAccumulator(acc) == IF acc > ACC_CAP THEN ACC_CAP ELSE acc

\* The frame times dt handed to update: main.py caps dt at 2.0; 12.0 stands
\* for a caller without that cap.
FrameDts == { 0, 3, 10, 17, 120 }

\* The time scales of the keys 1, 2 and 3.
TimeScales == { 1, 2, 5 }

UpdateInit ==
    /\ agents = << >> /\ new_agents = << >> /\ active_agents = << >>
    /\ idx = 0 /\ pc = "out" /\ resources = {} /\ res = << >>
    /\ spawners = << >> /\ ticks = 0 /\ prev_count = 0 /\ credited = << >>
    /\ dead_at_start = {}
    /\ last = NoStep /\ grid = EmptyGrid /\ net = << >>
    /\ clock = NewClock
    /\ probe = [ op |-> "none", frames |-> 0 ]

held == << agents, new_agents, active_agents, idx, resources, res, grid,
           spawners, prev_count, dead_at_start, credited, last, net >>

\* main.py's key handling between frames: pause toggle and time scale.
KeyPress ==
    /\ pc = "out"
    /\ \/ clock' = [ clock EXCEPT !.paused = ~clock.paused ]
       \/ \E ts \in TimeScales : ts # clock.time_scale
                                 /\ clock' = [ clock EXCEPT !.time_scale = ts ]
    /\ UNCHANGED << held, pc, ticks, probe >>

\* update(dt) up to the while loop: return at once when paused, else add
\* dt * time_scale to the accumulator and cap it.
UpdateEnter ==
    /\ pc = "out"
    /\ probe.frames < MaxFrames
    /\ \E dt \in FrameDts :
         IF clock.paused
         THEN /\ probe' = [ op |-> "update", frames |-> probe.frames + 1, dt |-> dt,
                            skipped |-> TRUE, returned |-> TRUE, entered |-> clock.accumulator,
                            scale |-> clock.time_scale, capped |-> clock.accumulator, ran |-> 0 ]
              /\ UNCHANGED << clock, pc >>
         ELSE LET acc == CapAccumulator(clock.accumulator + dt * clock.time_scale)
              IN  /\ clock' = [ clock EXCEPT !.accumulator = acc ]
                  /\ probe' = [ op |-> "update", frames |-> probe.frames + 1, dt |-> dt,
                                skipped |-> FALSE, returned |-> FALSE, entered |-> clock.accumulator,
                                scale |-> clock.time_scale, capped |-> acc, ran |-> 0 ]
                  /\ pc' = "stepping"
    /\ UNCHANGED << held, ticks >>

\* One iteration of `while self.accumulator >= 1.0`: a tick, then
\* accumulator -= 1.0.
UpdateTick ==
    /\ pc = "stepping"
    /\ clock.accumulator >= STEP_DT
    /\ ticks' = ticks + 1
    /\ clock' = [ clock EXCEPT !.accumulator = @ - STEP_DT ]
    /\ probe' = [ probe EXCEPT !.ran = @ + 1 ]
    /\ UNCHANGED << held, pc >>

\* The loop exits; the statistics timer advances and update returns.
UpdateReturn ==
    /\ pc = "stepping"
    /\ clock.accumulator < STEP_DT
    /\ clock' = [ clock EXCEPT !.stats_timer =
                    IF @ + 1 >= STATS_PERIOD THEN 0 ELSE @ + 1 ]
    /\ probe' = [ probe EXCEPT !.returned = TRUE ]
    /\ pc' = "out"
    /\ UNCHANGED << held, ticks >>

UpdateNext == KeyPress \/ UpdateEnter \/ UpdateTick \/ UpdateReturn

SpecUpdate == UpdateInit /\ [][UpdateNext]_vars

\* C13: a non-paused update(dt) adds dt * time_scale to the accumulator and
\* caps it at 10.0, runs floor(capped accumulator) ticks, at most 10, and
\* returns with the accumulator in [0, 1).
C13_FixedStepTicks ==
    (probe.op = "update" /\ ~probe.skipped) =>
        /\ probe.capped = Min(probe.entered + probe.dt * probe.scale, ACC_CAP)
        /\ probe.ran <= probe.capped \div STEP_DT
        /\ probe.ran <= 10
        /\ probe.returned =>
             /\ probe.ran = probe.capped \div STEP_DT
             /\ clock.accumulator >= 0 /\ clock.accumulator < STEP_DT
             /\ clock.accumulator = probe.capped - probe.ran * STEP_DT

\* C13 witness: an update that hit the cap and returned after 10 ticks.
C13_Witness ==
    /\ probe.op = "update" /\ ~probe.skipped /\ probe.returned
    /\ probe.entered + probe.dt * probe.scale > ACC_CAP
    /\ probe.ran = 10

-----------------------------------------------------------------------------
\* The last stepped agent's liveness flag was cleared by its metabolism.
DiedOfMetabolism == Stepped /\ last.before.alive /\ ~last.decayed.alive

\* C14 as claimed: an agent whose flag is cleared by the metabolism phase
\* attacks no agent, eats no food, drinks no water and has no offspring in
\* that tick.
C14_CorpseDoesNothing ==
    DiedOfMetabolism =>
        /\ last.hits = {}
        /\ last.ate = {}
        /\ last.drunk.thirst = last.fed.thirst
        /\ ~last.repro

\* The multiset of agents of a list, as counts per agent record.
Count(s, x) == Cardinality({ k \in 1 .. Len(s) : s[k] = x })

\* C16: when survivors plus offspring exceed MAX_POP, exactly MAX_POP agents
\* of them are kept, and every kept agent is at most as old as every
\* discarded one.
C16_OldestDiscardedFirst ==
    (EndOfTick /\ Len(last.pool) > MAX_POP) =>
        /\ Len(agents) = MAX_POP
        /\ \A k \in 1 .. Len(agents) : Count(agents, agents[k]) <= Count(last.pool, agents[k])
        /\ \A k \in 1 .. Len(agents) : \A d \in 1 .. Len(last.pool) :
             Count(last.pool, last.pool[d]) > Count(agents, last.pool[d])
                 => agents[k].age <= last.pool[d].age

\* C16 witness: the cull discarded an agent older than a kept one that stood
\* behind it in the list.
C16_Witness ==
    /\ EndOfTick /\ Len(last.pool) > MAX_POP
    /\ Len(agents) = MAX_POP
    /\ \E d \in 1 .. MAX_POP : \E k \in (MAX_POP + 1) .. Len(last.pool) :
         /\ Count(agents, last.pool[d]) < Count(last.pool, last.pool[d])
         /\ Count(agents, last.pool[k]) > 0
         /\ last.pool[k].age < last.pool[d].age

\* C18 as claimed: an agent loses energy to an attack only if its flag is set
\* at the moment of the attack and the attacker is a HUNTER below 70 energy.
C18_OnlyLiveVictims ==
    Stepped => \A k \in last.hits :
        /\ k \notin last.dead_hits
        /\ last.before.archetype = "HUNTER"
        /\ last.decayed.energy < HUNT_ENERGY

\* C18 amended: an agent loses energy to an attack only if the attacker is a
\* HUNTER whose energy after its metabolism is below 70 and the agent is
\* within 20 px of it; the loss is 40 and the victim's flag is not tested.
C18_OnlyHungryHunters ==
    Stepped => \A k \in last.hits :
        /\ last.before.archetype = "HUNTER"
        /\ last.decayed.energy < HUNT_ENERGY
        /\ InCapture(last.moved.pos, agents[k].pos)
        /\ k # last.i

\* C18 witness: a hunter attacked an agent whose flag was already clear.
C18_Witness ==
    /\ Stepped
    /\ last.dead_hits # {}
    /\ last.before.archetype = "HUNTER"

-----------------------------------------------------------------------------
\* C15 as claimed: a structural mutation that would add a node at
\* MAX_HIDDEN_NODES, or remove one at width 2, is skipped: the returned
\* controller has the original's hidden width.
C15_RefusedDrawKeepsWidth ==
    (/\ probe.op = "mutate"
     /\ \/ probe.rnd.struct = "grow" /\ probe.from = MAX_HIDDEN_NODES
        \/ probe.rnd.struct = "shrink" /\ probe.from = MIN_HIDDEN_NODES)
        => net.num_hidden = probe.from

\* C15 amended: a removal drawn at width 2 is skipped and the width stays 2;
\* an addition drawn at MAX_HIDDEN_NODES is not skipped but falls through to
\* the removal, and the returned controller is one node narrower.
C15_FloorSkipsCeilingShrinks ==
    probe.op = "mutate" =>
        /\ (probe.rnd.struct = "shrink" /\ probe.from = MIN_HIDDEN_NODES)
               => net.num_hidden = MIN_HIDDEN_NODES
        /\ (probe.rnd.struct = "grow" /\ probe.from = MAX_HIDDEN_NODES)
               => net.num_hidden = MAX_HIDDEN_NODES - 1
        /\ (probe.rnd.struct = "grow" /\ probe.from < MAX_HIDDEN_NODES)
               => net.num_hidden = probe.from + 1
        /\ (probe.rnd.struct = "shrink" /\ probe.from > MIN_HIDDEN_NODES)
               => net.num_hidden = probe.from - 1

\* C15 witness: an addition drawn at MAX_HIDDEN_NODES returned a controller
\* of width MAX_HIDDEN_NODES - 1.
C15_Witness ==
    /\ probe.op = "mutate"
    /\ probe.rnd.struct = "grow"
    /\ probe.from = MAX_HIDDEN_NODES
    /\ net.num_hidden = MAX_HIDDEN_NODES - 1

\* A removal drawn at width 2 was skipped.
C15_FloorReached ==
    /\ probe.op = "mutate"
    /\ probe.rnd.struct = "shrink"
    /\ probe.from = MIN_HIDDEN_NODES
    /\ net.num_hidden = MIN_HIDDEN_NODES

\* The agents of the last update's visible list that lost energy.
C17_Victims ==
    { k \in 1 .. Len(probe.others) :
        probe.result.others[k].energy < probe.others[k].energy }

\* C17 as claimed: in one update at most one other agent loses 40 energy and
\* the hunter gains at most one credit of 30.
C17_OneVictimPerUpdate ==
    probe.op = "update" =>
        /\ Cardinality(C17_Victims) <= 1
        /\ probe.result.self.energy <= probe.decayed.energy + ATTACK_GAIN

\* C17 amended: a HUNTER below 70 energy after its metabolism attacks every
\* agent of its visible list within 20 px: each of them loses 40, and the
\* hunter gains 30 per victim, capped at 100.  No other update attacks.
C17_EveryAgentInReach ==
    probe.op = "update" =>
        LET hunts == probe.before.archetype = "HUNTER" /\ probe.decayed.energy < HUNT_ENERGY
            reach == IF hunts THEN C6_InReach ELSE {}
        IN  /\ C17_Victims = reach
            /\ \A k \in 1 .. Len(probe.others) :
                 probe.result.others[k].energy =
                     probe.others[k].energy - (IF k \in reach THEN ATTACK_DAMAGE ELSE 0)
            /\ probe.result.self.energy =
                 IF reach = {} THEN probe.decayed.energy
                 ELSE Min(STAT_CAP, probe.decayed.energy + ATTACK_GAIN * Cardinality(reach))

\* C17 witness: one update of a hunter took 40 energy from two agents and
\* credited the hunter more than 30.
C17_Witness ==
    /\ probe.op = "update"
    /\ Cardinality(C17_Victims) = 2
    /\ probe.result.self.energy > probe.decayed.energy + ATTACK_GAIN

\* C19: mutate leaves the original's matrices and hidden width unchanged and
\* the returned controller shares no row with the original.
C19_IndependentCopy ==
    probe.op = "mutate" =>
        /\ probe.original_after = probe.original
        /\ probe.original_after.num_hidden = probe.from
        /\ probe.shared = {}

\* C19 witness: a mutate call that changed weights and the hidden width, so
\* that the returned controller differs from the original in every row.
C19_Witness ==
    /\ probe.op = "mutate"
    /\ probe.rnd.delta # 0
    /\ net.num_hidden # probe.from
    /\ \A i \in 1 .. NUM_IN : net.w_ih[i] # probe.original.w_ih[i]
    /\ probe.original_after = probe.original

-----------------------------------------------------------------------------
\* C21: the live resource count never exceeds the cap, and a tick adds at
\* most one resource to the live set (credited is indexed by the resources
\* that were live when the tick started).
C21_ResourceCap ==
    /\ Cardinality(resources) <= RESOURCE_CAP
    /\ EndOfTick => Cardinality(resources \ DOMAIN credited) <= 1

\* C21 witness: a tick that started with the live set at the cap has ended
\* with the same live set.
C21_Witness ==
    /\ EndOfTick
    /\ Cardinality(resources) = RESOURCE_CAP
    /\ resources = DOMAIN credited

\* A tick has added one resource and reached the cap.
C21_CapReached ==
    /\ EndOfTick
    /\ Cardinality(resources) = RESOURCE_CAP
    /\ Cardinality(resources \ DOMAIN credited) = 1

-----------------------------------------------------------------------------
\* C22 as claimed: after every tick the position of every agent of the list,
\* offspring of that tick included, lies within the world bounds.
C22_AllAgentsInWorld ==
    EndOfTick => \A k \in 1 .. Len(agents) : InWorld(agents[k].pos)

\* C22, the part that holds: after every tick every agent that has been
\* updated at least once (age > 0) lies within the world bounds.
C22_UpdatedAgentsInWorld ==
    EndOfTick => \A k \in 1 .. Len(agents) :
        agents[k].age > 0 => InWorld(agents[k].pos)

\* An agent crossed the west edge in its update and was wrapped to the east
\* side of the world.
C22_WrappedAtEdge ==
    /\ Stepped
    /\ last.moved.pos[1] > last.before.pos[1]
    /\ last.before.dir = West
    /\ InWorld(last.moved.pos)

-----------------------------------------------------------------------------
\* C23: an iteration of the agent loop appends at most one offspring, and
\* only if the agent's energy after eating and drinking exceeds
\* REPRO_THRESHOLD and the agent list of the loop is shorter than MAX_POP; the
\* parent then pays exactly REPRO_COST, and pays nothing otherwise.
C23_ReproductionGuarded ==
    Stepped =>
        /\ Len(last.born) <= 1
        /\ Len(last.born) = 1 =>
             /\ last.drunk.energy > REPRO_THRESHOLD
             /\ Len(agents) < MAX_POP
             /\ last.after.energy = last.drunk.energy - REPRO_COST
             /\ last.born[1].gen = last.after.gen + 1
             /\ new_agents[Len(new_agents)] = last.born[1]
        /\ Len(last.born) = 0 => last.after.energy = last.drunk.energy

\* C23 witness: an agent above REPRO_THRESHOLD reproduced with one free place
\* below MAX_POP and paid REPRO_COST.
C23_Witness ==
    /\ Stepped
    /\ Len(last.born) = 1
    /\ Len(agents) = MAX_POP - 1
    /\ last.after.energy = last.drunk.energy - REPRO_COST

\* An agent above REPRO_THRESHOLD was stepped in a full agent list.
C23_Crowded ==
    /\ Stepped
    /\ last.drunk.energy > REPRO_THRESHOLD
    /\ Len(agents) >= MAX_POP

-----------------------------------------------------------------------------
\* The positions of the living members of archetype t in the list the last
\* statistics were computed from.
C24_Living(t) ==
    { k \in 1 .. Len(probe.of) : probe.of[k].archetype = t /\ probe.of[k].alive }

\* C24 as claimed: the champion of each archetype is a living member of
\* maximal age among the living members, or none when there is no living
\* member.
C24_ChampionOldestLiving ==
    probe.op = "stats" =>
        \A t \in SeqToSet(ArchetypeNames) :
            LET c == probe.stats.champions[t]
            IN  IF C24_Living(t) = {} THEN c = 0
                ELSE /\ c \in C24_Living(t)
                     /\ \A k \in C24_Living(t) : probe.of[k].age <= probe.of[c].age

\* C24, the part that holds: the champion of each archetype is the first
\* member of maximal age among all members of that archetype in the list,
\* living or dead, or none when the list has no member of it.
C24_ChampionOldestListed ==
    probe.op = "stats" =>
        \A t \in SeqToSet(ArchetypeNames) :
            LET c  == probe.stats.champions[t]
                of == { k \in 1 .. Len(probe.of) : probe.of[k].archetype = t }
            IN  IF of = {} THEN c = 0
                ELSE /\ c \in of
                     /\ \A k \in of : probe.of[k].age <= probe.of[c].age
                     /\ \A k \in of : probe.of[k].age = probe.of[c].age => c <= k

\* Statistics were computed from a list that holds a dead agent older than
\* every living member of its archetype, and that agent is the champion.
C24_DeadChampion ==
    /\ probe.op = "stats"
    /\ \E t \in SeqToSet(ArchetypeNames) :
         /\ probe.stats.champions[t] # 0
         /\ ~probe.of[probe.stats.champions[t]].alive

\* Statistics were computed from a list whose members are all alive, with
\* members of different ages in one archetype and an archetype without
\* members.
C24_AllAlive ==
    /\ probe.op = "stats"
    /\ \A k \in 1 .. Len(probe.of) : probe.of[k].alive
    /\ \E j, k \in 1 .. Len(probe.of) :
         probe.of[j].archetype = probe.of[k].archetype /\ probe.of[j].age < probe.of[k].age
    /\ \E t \in SeqToSet(ArchetypeNames) : probe.stats.champions[t] = 0

-----------------------------------------------------------------------------
\* C25: an agent whose flag is clear stays dead, whatever its energy and
\* thirst become: an agent that was dead when a tick began is dead throughout
\* that tick, is never stepped in it, and is not among the survivors that
\* form the next agent list; an agent that died in its own step stays dead
\* through the rest of the step.
C25_DeathPermanent ==
    pc = "loop" =>
        /\ \A k \in dead_at_start : ~agents[k].alive
        /\ \A k \in dead_at_start : k \notin SeqToSet(active_agents)
        /\ Stepped =>
             /\ last.i \notin dead_at_start
             /\ last.before.alive
             /\ ~last.decayed.alive => ~last.after.alive
             /\ \A k \in last.dead_hits : ~agents[k].alive

\* C25 witness: the agent loop has passed an agent that was dead when the
\* tick began, and has stepped the agents behind it.
C25_Witness ==
    /\ Stepped
    /\ \E k \in dead_at_start : k < last.i

\* An agent died of thirst in its own step, drank and ate in the same step,
\* and ended it dead with positive energy and thirst.
C25_DeadWithPositiveStats ==
    /\ DiedOfMetabolism
    /\ last.after.energy > 0 /\ last.after.thirst > 0
    /\ ~last.after.alive

=============================================================================
